---- MODULE Spec2Model ----
(***************************************************************************)
(* Model of the two analysis programs of the Brain Architecture project:   *)
(*   brain_processor.py            BrainArchitectureProcessor              *)
(*   project_2_2_brain_processor.py Project22BrainProcessor                *)
(*                                                                         *)
(* Units.  Every decimal is kept as a scaled integer:                      *)
(*   response_time_ms   ms                 avg_response_time_ms  1/100 ms  *)
(*   cost_usd           1/1000000 USD      avg_cost_usd      1/1000000 USD *)
(*   quality_score      1/1000             avg_quality_score     1/1000    *)
(*   user_satisfaction  1                  avg_user_satisfaction 1/100     *)
(*   performance_improvement_factor, cost_reduction_factor       1/10      *)
(*   quality_improvement_percent, roi_percent                    1/100     *)
(* A nullable value is a sequence: <<>> is SQL NULL / Python None, <<v>>   *)
(* is the number v.                                                        *)
(***************************************************************************)
EXTENDS Integers, Sequences, FiniteSets, TLC

\* ------------------------------------------------------------------ bounds
MaxQueries == 3

\* ------------------------------------------------------------- null values
None == <<>>
Num(v) == <<v>>
Val(x) == x[1]

\* ---------------------------------------------------------------- rounding
Abs(n) == IF n < 0 THEN 0 - n ELSE n

\* PostgreSQL ROUND(numeric, k) of n/d (n >= 0, d > 0): ties go away from 0.
RoundHalfAway(n, d) == (2 * n + d) \div (2 * d)

\* Python round(Decimal, k) of n/d (d > 0): quantize with ROUND_HALF_EVEN.
RoundHalfEven(n, d) ==
    LET q == Abs(n) \div d
        r == Abs(n) % d
        m == IF 2 * r > d \/ (2 * r = d /\ q % 2 = 1) THEN q + 1 ELSE q
    IN  IF n < 0 THEN 0 - m ELSE m

RECURSIVE SumSeq(_)
SumSeq(s) == IF s = <<>> THEN 0 ELSE Head(s) + SumSeq(Tail(s))

\* ------------------------------------------------------------------ tables
ProcessingMethod == <<"RAG", "CONTEXT_DUMP", "HYBRID">>

\* The observations a query can carry: what bronze.raw_queries records of it
\* (response_time_ms, cost_usd) and what its row of
\* bronze.raw_performance_metrics records (quality_score, user_satisfaction);
\* metrics = FALSE is a query that has no metrics row.
Observations == <<
    [response_time_ms |-> 500,  cost_usd |-> 2000,  metrics |-> TRUE,  quality_score |-> 950, user_satisfaction |-> 5],
    [response_time_ms |-> 700,  cost_usd |-> 3000,  metrics |-> TRUE,  quality_score |-> 900, user_satisfaction |-> 4],
    [response_time_ms |-> 3000, cost_usd |-> 20000, metrics |-> TRUE,  quality_score |-> 800, user_satisfaction |-> 2],
    [response_time_ms |-> 0,    cost_usd |-> 2000,  metrics |-> TRUE,  quality_score |-> 950, user_satisfaction |-> 5],
    [response_time_ms |-> 500,  cost_usd |-> 0,     metrics |-> TRUE,  quality_score |-> 950, user_satisfaction |-> 5],
    [response_time_ms |-> 3000, cost_usd |-> 20000, metrics |-> TRUE,  quality_score |-> 0,   user_satisfaction |-> 2],
    [response_time_ms |-> 500,  cost_usd |-> 2000,  metrics |-> FALSE, quality_score |-> 0,   user_satisfaction |-> 0] >>

NumCases == Len(ProcessingMethod) * Len(Observations)

MethodOfCase(k) == ProcessingMethod[((k - 1) \div Len(Observations)) + 1]
ObservationOfCase(k) == Observations[((k - 1) % Len(Observations)) + 1]

\* A table is a bag of rows: the inputs list it in one canonical order.
InputCases ==
    { f \in UNION { [1..n -> 1..NumCases] : n \in 0..MaxQueries } :
        \A i \in 1..Len(f) : i = 1 \/ f[i - 1] <= f[i] }

\* bronze.raw_queries: the unqualified columns of the query are rq's.
RawQueries(c) ==
    [i \in 1..Len(c) |->
        [query_id          |-> i,
         processing_method |-> MethodOfCase(c[i]),
         response_time_ms  |-> ObservationOfCase(c[i]).response_time_ms,
         cost_usd          |-> ObservationOfCase(c[i]).cost_usd]]

\* bronze.raw_performance_metrics: at most one row per query.
RawPerformanceMetrics(c) ==
    { [query_id          |-> i,
       quality_score     |-> ObservationOfCase(c[i]).quality_score,
       user_satisfaction |-> ObservationOfCase(c[i]).user_satisfaction] :
        i \in { j \in 1..Len(c) : ObservationOfCase(c[j]).metrics } }

\* FROM bronze.raw_queries rq LEFT JOIN bronze.raw_performance_metrics rpm
\* ON rq.query_id = rpm.query_id: every query yields a row, with NULL in the
\* rpm columns when no metrics row matches.
LeftJoin(rq, rpm) ==
    [i \in 1..Len(rq) |->
        LET hit == { m \in rpm : m.query_id = rq[i].query_id }
        IN  [processing_method |-> rq[i].processing_method,
             response_time_ms  |-> Num(rq[i].response_time_ms),
             cost_usd          |-> Num(rq[i].cost_usd),
             quality_score     |-> IF hit = {} THEN None
                                   ELSE Num((CHOOSE m \in hit : TRUE).quality_score),
             user_satisfaction |-> IF hit = {} THEN None
                                   ELSE Num((CHOOSE m \in hit : TRUE).user_satisfaction)]]

\* ------------------------------------------------- the aggregation query
\* AVG(col) ignores NULLs and is NULL over no value; ROUND(.., k) keeps k
\* decimals: mult is 10^k divided by the scale of the column.
Avg(rows, col, mult) ==
    LET nn == SelectSeq(rows, LAMBDA r : r[col] # None)
    IN  IF nn = <<>> THEN None
        ELSE Num(RoundHalfAway(mult * SumSeq([i \in 1..Len(nn) |-> Val(nn[i][col])]), Len(nn)))

GroupRows(joined, m) == SelectSeq(joined, LAMBDA r : r.processing_method = m)

\* COUNT(*) counts the joined rows of the group, whatever their NULLs.
GroupRow(joined, m) ==
    LET rows == GroupRows(joined, m)
    IN  [processing_method     |-> m,
         query_count           |-> Len(rows),
         avg_response_time_ms  |-> Avg(rows, "response_time_ms", 100),
         avg_cost_usd          |-> Avg(rows, "cost_usd", 1),
         avg_quality_score     |-> Avg(rows, "quality_score", 1),
         avg_user_satisfaction |-> Avg(rows, "user_satisfaction", 100)]

\* GROUP BY processing_method: one row per method that occurs.
PerformanceData(joined) ==
    { GroupRow(joined, joined[i].processing_method) : i \in 1..Len(joined) }

\* next((row for row in performance_data if row['processing_method'] == m), None)
RowOf(performance_data, m) ==
    IF \E g \in performance_data : g.processing_method = m
    THEN <<CHOOSE g \in performance_data : g.processing_method = m>>
    ELSE None

\* ---------------------------------------------------- Decimal arithmetic
\* round(a / b, digits) on Decimals a, b of one scale: the outcome is a
\* number, or the exception Python raises.
Raised(e) == [kind |-> "raised", exc |-> e]
Value(v) == [kind |-> "value", value |-> v]

DecimalRatio(a, b, mult) ==
    IF a = None \/ b = None THEN Raised("TypeError")
    ELSE IF Val(b) = 0
         THEN IF Val(a) = 0 THEN Raised("InvalidOperation") ELSE Raised("DivisionByZero")
         ELSE Value(RoundHalfEven(mult * Val(a), Val(b)))

\* round((a - b) / b * 100, 2)
DecimalPercent(a, b) ==
    IF a = None \/ b = None THEN Raised("TypeError")
    ELSE DecimalRatio(Num(Val(a) - Val(b)), b, 10000)

\* ------------------------------------------ BrainArchitectureProcessor
Compared_Either(performance_data) ==
    RowOf(performance_data, "RAG") # None \/ RowOf(performance_data, "CONTEXT_DUMP") # None

\* if rag_data and context_data:
Compared(performance_data) ==
    RowOf(performance_data, "RAG") # None /\ RowOf(performance_data, "CONTEXT_DUMP") # None

\* analyze_rag_vs_context_dumping: the dictionary it returns ({} is
\* "empty"), or the exception it logs and re-raises.  The entries of the
\* dictionary are evaluated in order, so the first exception is the one
\* raised.
AnalyzeRagVsContextDumping(rq, rpm) ==
    LET performance_data == PerformanceData(LeftJoin(rq, rpm))
        rag          == RowOf(performance_data, "RAG")
        context      == RowOf(performance_data, "CONTEXT_DUMP")
    IN  IF ~Compared(performance_data) THEN [kind |-> "empty"]
        ELSE IF rag = None \/ context = None
        THEN Raised("TypeError")   \* dict(None), None['avg_response_time_ms']
        ELSE LET rag_data     == Val(rag)
                 context_data == Val(context)
                 pf  == DecimalRatio(context_data.avg_response_time_ms,
                                     rag_data.avg_response_time_ms, 10)
                 cf  == DecimalRatio(context_data.avg_cost_usd,
                                     rag_data.avg_cost_usd, 10)
                 qip == DecimalPercent(rag_data.avg_quality_score,
                                       context_data.avg_quality_score)
             IN  IF pf.kind = "raised" THEN pf
                 ELSE IF cf.kind = "raised" THEN cf
                 ELSE IF qip.kind = "raised" THEN qip
                 ELSE [kind |-> "ok",
                       rag_metrics |-> rag_data,
                       context_dump_metrics |-> context_data,
                       performance_improvement_factor |-> Num(pf.value),
                       cost_reduction_factor |-> Num(cf.value),
                       quality_improvement_percent |-> Num(qip.value)]

RoiMultiplier == 20
RoiCap == 900

Min_Larger(a, b) == IF a >= b THEN a ELSE b

Min(a, b) == IF a <= b THEN a ELSE b

\* generate_executive_summary over the analysis it has just run.
ExecutiveSummary(analysis_) ==
    IF analysis_.kind = "raised" THEN analysis_
    ELSE IF analysis_.kind = "empty"
         THEN [kind |-> "error", error |-> "No data available for analysis"]
         ELSE LET performance_factor  == Val(analysis_.performance_improvement_factor)
                  cost_factor         == Val(analysis_.cost_reduction_factor)
                  quality_improvement == Val(analysis_.quality_improvement_percent)
                  roi_percent == Min(performance_factor * cost_factor * RoiMultiplier,
                                     RoiCap * 100)
              IN  [kind |-> "summary",
                   key_achievements |->
                       [performance_improvement |-> performance_factor,
                        cost_reduction          |-> cost_factor,
                        quality_improvement     |-> quality_improvement,
                        roi_delivered           |-> roi_percent],
                   raw_analysis |-> analysis_]

\* ---------------------------------------------- Project22BrainProcessor
\* The values avg_response_time_ms takes in project_two.chi_n_nguyen_analytics
\* (ms), NULL included.
AnalyticsTimes == {None, Num(0), Num(600), Num(3000)}

\* The states of the analytics table: one row per context method, the rows
\* ranked 1..N by performance_rank.
AnalyticsTables ==
    UNION { { { [context_method       |-> ProcessingMethod[i],
                 avg_response_time_ms |-> t[i],
                 performance_rank     |-> r[i]] : i \in S } :
              t \in [S -> AnalyticsTimes],
              r \in { f \in [S -> 1..Cardinality(S)] :
                        \A i, j \in S : f[i] = f[j] => i = j } } :
            S \in SUBSET (1..Len(ProcessingMethod)) }

\* ... ORDER BY performance_rank ASC
RECURSIVE OrderByRankAsc(_)
OrderByRankAsc(rows) ==
    IF rows = {} THEN <<>>
    ELSE LET first == CHOOSE x \in rows :
                          \A y \in rows : x.performance_rank <= y.performance_rank
         IN  <<first>> \o OrderByRankAsc(rows \ {first})

\* The first statement: every row, by ascending rank.
MethodComparisonStatement(table) == [kind |-> "rows", rows |-> OrderByRankAsc(table)]

\* The second statement as an engine would answer it that sorted the rows
\* of the UNION ALL by the rank of the row each came from and kept two.
PerformersStatement_Evaluated(table) ==
    LET worst == OrderByRankAsc(table)
        n     == Len(worst)
        tag(c, x) == [category |-> c, context_method |-> x.context_method,
                      avg_response_time_ms |-> x.avg_response_time_ms]
    IN  [kind |-> "rows",
         rows |-> IF n = 0 THEN <<>>
                  ELSE IF n = 1 THEN <<tag("WORST", worst[1]), tag("BEST", worst[1])>>
                  ELSE <<tag("WORST", worst[n]), tag("WORST", worst[n - 1])>>]

\* The second statement: SELECT 'BEST' .. WHERE performance_rank = 1
\* UNION ALL SELECT 'WORST' .. ORDER BY performance_rank DESC LIMIT 2.
\* ORDER BY and LIMIT written after a UNION apply to the whole union, whose
\* output columns are category, context_method, model_name,
\* avg_response_time_ms and avg_cost_usd; performance_rank is not one of
\* them, so PostgreSQL rejects the statement when it analyses it, whatever
\* the table holds, and cursor.execute raises psycopg2.Error.
PerformersStatement(table) == [kind |-> "error", exc |-> "psycopg2.Error"]

\* next((p[..] for p in performers if p['category'] == c), default)
HasCategory(performers, c) == \E i \in 1..Len(performers) : performers[i].category = c

FirstOfCategory(performers, c) ==
    performers[CHOOSE i \in 1..Len(performers) :
                  /\ performers[i].category = c
                  /\ \A j \in 1..(i - 1) : performers[j].category # c]

TimeOfCategory(performers, c) ==
    IF HasCategory(performers, c)
    THEN FirstOfCategory(performers, c).avg_response_time_ms
    ELSE Num(1)

\* round(worst_time / best_time, 1) if best_time > 0 else 0
ImprovementFactor(performers) ==
    LET best_time  == TimeOfCategory(performers, "BEST")
        worst_time == TimeOfCategory(performers, "WORST")
    IN  IF best_time = None THEN Raised("TypeError")
        ELSE IF Val(best_time) > 0 THEN DecimalRatio(worst_time, best_time, 10)
        ELSE Value(0)

ReturnedNone == [kind |-> "None"]

\* Lines 313-346: the report built from the two fetched row lists; any
\* exception is logged and None is returned.
PerformanceAnalysis(method_comparison_, performers) ==
    LET improvement_factor == ImprovementFactor(performers)
    IN  IF improvement_factor.kind = "raised" THEN ReturnedNone
        ELSE IF \E i \in 1..Len(method_comparison_) :
                    method_comparison_[i].avg_response_time_ms = None
        THEN ReturnedNone   \* the :>6.0f format of None raises TypeError
        ELSE [kind |-> "report",
              method_comparison |-> method_comparison_,
              best_performer  |-> IF HasCategory(performers, "BEST")
                                  THEN <<FirstOfCategory(performers, "BEST")>> ELSE None,
              worst_performer |-> IF HasCategory(performers, "WORST")
                                  THEN <<FirstOfCategory(performers, "WORST")>> ELSE None,
              improvement_factor |-> Num(improvement_factor.value),
              total_methods_analyzed |-> Len(method_comparison_)]

\* ------------------------------------------------- run_ddl and run_dml
DdlFiles == <<"DDL/chi_n_nguyen_table.sql", "DDL/chi_n_nguyen_analytics.sql">>
DmlFiles == <<"DML/chi_n_nguyen_data.sql", "DML/chi_n_nguyen_analytics_data.sql">>

ScriptFiles == {DdlFiles[i] : i \in 1..Len(DdlFiles)} \cup {DmlFiles[i] : i \in 1..Len(DmlFiles)}

\* What can be the case of a script file: it does not exist; it cannot be
\* opened or read; the server executes it; the server rejects it.
ScriptStates == {"missing", "unreadable", "ok", "fails"}

RECURSIVE RunFiles(_, _)

\* the loop going on to the next file after a failure
RECURSIVE RunFiles_KeepsGoing(_, _)
RunFiles_KeepsGoing(files, state) ==
    IF files = <<>> THEN [result |-> TRUE, executed |-> <<>>, handled |-> <<>>]
    ELSE LET f    == Head(files)
             rest == RunFiles_KeepsGoing(Tail(files), state)
         IN  IF state[f] = "missing"
             THEN [rest EXCEPT !.handled = <<f>> \o rest.handled]
             ELSE IF state[f] = "unreadable"
             THEN [rest EXCEPT !.result = FALSE, !.handled = <<f>> \o rest.handled]
             ELSE [result   |-> rest.result /\ state[f] = "ok",
                   executed |-> <<f>> \o rest.executed,
                   handled  |-> <<f>> \o rest.handled]

\* The for loop over the files with an open connection: a missing file is
\* skipped, an exception of open, read or cursor.execute ends the call with
\* False.  executed lists the scripts handed to cursor.execute, handled the
\* files the loop took up.
RunFiles(files, state) ==
    IF files = <<>> THEN [result |-> TRUE, executed |-> <<>>, handled |-> <<>>]
    ELSE LET f    == Head(files)
             rest == RunFiles(Tail(files), state)
         IN  IF state[f] = "missing"
             THEN [rest EXCEPT !.handled = <<f>> \o rest.handled]
             ELSE IF state[f] = "unreadable"
             THEN [result |-> FALSE, executed |-> <<>>, handled |-> <<f>>]
             ELSE IF state[f] = "fails"
             THEN [result |-> FALSE, executed |-> <<f>>, handled |-> <<f>>]
             ELSE [result   |-> rest.result,
                   executed |-> <<f>> \o rest.executed,
                   handled  |-> <<f>> \o rest.handled]

\* run_ddl(ddl_file) and run_dml(dml_file): file is "None" for no argument.
\* Without a connection the call returns False at once; on a closed
\* connection connection.cursor() raises and the call returns False.
RunScripts(conn, default_files, file, state) ==
    IF conn # "open" THEN [result |-> FALSE, executed |-> <<>>, handled |-> <<>>]
    ELSE RunFiles(IF file = "None" THEN default_files ELSE <<file>>, state)

\* ------------------------------------------------------------ the drivers
\* main() going on to run_dml after a False of run_ddl
ProjectMainNext_NoReturn(step, ok) ==
    CASE step = "connect"        -> IF ok THEN "run_ddl" ELSE "close"
      [] step = "run_ddl"        -> "run_dml"
      [] step = "run_dml"        -> IF ok THEN "view_main" ELSE "close"
      [] step = "view_main"      -> "view_analytics"
      [] step = "view_analytics" -> "analysis"
      [] step = "analysis"       -> "close"
      [] step = "close"          -> "exited"
      [] OTHER                   -> "none"

\* main() of project_2_2_brain_processor.py: where it goes after a step that
\* returned ok.  A False of connect_to_database, run_ddl or run_dml returns
\* from the try block, whose finally clause closes the connection.  A
\* handler called outside main ("none") leaves no driver position.
ProjectMainNext(step, ok) ==
    CASE step = "connect"        -> IF ok THEN "run_ddl" ELSE "close"
      [] step = "run_ddl"        -> IF ok THEN "run_dml" ELSE "close"
      [] step = "run_dml"        -> IF ok THEN "view_main" ELSE "close"
      [] step = "view_main"      -> "view_analytics"
      [] step = "view_analytics" -> "analysis"
      [] step = "analysis"       -> "close"
      [] step = "close"          -> "exited"
      [] OTHER                   -> "none"

\* main() without its finally clause
BrainMainNext_NoFinally(step, ok) ==
    CASE step = "initialize" -> IF ok THEN "summary" ELSE "exited"
      [] step = "summary"    -> IF ok THEN "shutdown" ELSE "exited"
      [] step = "shutdown"   -> "exited"
      [] OTHER               -> "none"

\* main() of brain_processor.py: an exception of initialize or of
\* generate_executive_summary is caught and printed, and the finally clause
\* shuts the processor down.
BrainMainNext(step, ok) ==
    CASE step = "initialize" -> IF ok THEN "summary" ELSE "shutdown"
      [] step = "summary"    -> "shutdown"
      [] step = "shutdown"   -> "exited"
      [] OTHER               -> "none"

\* ------------------------------------------------------------------- state
MaxWrites == 1

VARIABLES
    program,                  \* the script that runs
    main_pc,                  \* position of its main(); "none": handlers are called directly
    calls,                    \* the calls made so far, with what they returned
    raw_queries,              \* bronze.raw_queries
    raw_performance_metrics,  \* bronze.raw_performance_metrics
    pool,                     \* DatabaseConnection.pool
    analysis,                 \* what analyze_rag_vs_context_dumping last returned
    summary,                  \* what generate_executive_summary last returned
    connection,               \* Project22BrainProcessor.connection
    scripts,                  \* the case of each script file
    analytics,                \* project_two.chi_n_nguyen_analytics
    writes,                   \* commits of other sessions to the analytics table
    gpa_pc,                   \* position of get_performance_analysis
    method_comparison,        \* its local method_comparison
    statements,               \* the table as each of its statements met it
    gpa_result                \* what get_performance_analysis returned

vars == <<program, main_pc, calls, raw_queries, raw_performance_metrics, pool,
          analysis, summary, connection, scripts, analytics, writes, gpa_pc,
          method_comparison, statements, gpa_result>>

brain_vars == <<raw_queries, raw_performance_metrics, pool, analysis, summary>>
project_vars == <<connection, scripts, analytics, writes, gpa_pc, method_comparison,
                  statements, gpa_result>>

NotCalled == [kind |-> "not_called"]

Call(op, result, executed) == [op |-> op, result |-> result, executed |-> executed]

PyBool(b) == IF b THEN "True" ELSE "False"

\* a call of run_ddl or run_dml: its argument, the connection it found, and
\* what RunScripts made of it
ScriptCall(op, file, conn, run) ==
    [op |-> op, result |-> PyBool(run.result), executed |-> run.executed,
     file |-> file, conn |-> conn]

\* The tables a run of main() meets: the methods of the table, each
\* measured at 600 ms, ranked in the order of the enumeration.
DriverTables ==
    { t \in AnalyticsTables :
        /\ \A x \in t : x.avg_response_time_ms = Num(600)
        /\ \A x, y \in t :
              x.performance_rank < y.performance_rank
                 => \E i, j \in 1..Len(ProcessingMethod) :
                       /\ i < j
                       /\ ProcessingMethod[i] = x.context_method
                       /\ ProcessingMethod[j] = y.context_method }

\* The bronze tables a run of main() meets: at most one query of each of
\* the two processing methods the analysis compares.
DriverCases ==
    { c \in InputCases :
        /\ \A i \in 1..Len(c) : MethodOfCase(c[i]) \in {"RAG", "CONTEXT_DUMP"}
        /\ \A i, j \in 1..Len(c) : i # j => MethodOfCase(c[i]) # MethodOfCase(c[j]) }

\* The state after construction of the processor; with main_pc = "none" the
\* handlers are called directly, on a BrainArchitectureProcessor that has
\* been initialized.
Init ==
    /\ \/ /\ program = "brain_processor"
          /\ \/ /\ main_pc = "none"
                /\ pool = "open"
                /\ \E c \in InputCases :
                      /\ raw_queries = RawQueries(c)
                      /\ raw_performance_metrics = RawPerformanceMetrics(c)
             \/ /\ main_pc = "initialize"
                /\ pool = "None"
                /\ \E c \in DriverCases :
                      /\ raw_queries = RawQueries(c)
                      /\ raw_performance_metrics = RawPerformanceMetrics(c)
          /\ analytics = {}
          /\ scripts = [f \in ScriptFiles |-> "ok"]
       \/ /\ program = "project_2_2_brain_processor"
          /\ raw_queries = <<>>
          /\ raw_performance_metrics = {}
          /\ pool = "None"
          /\ \/ /\ main_pc = "none"
                /\ analytics \in AnalyticsTables
                /\ scripts = [f \in ScriptFiles |-> "ok"]
             \/ /\ main_pc = "none"
                /\ analytics = {}
                /\ scripts \in [ScriptFiles -> ScriptStates]
             \/ /\ main_pc = "connect"
                /\ analytics \in DriverTables
                /\ scripts \in [ScriptFiles -> ScriptStates]
    /\ calls = <<>>
    /\ analysis = NotCalled
    /\ summary = NotCalled
    /\ connection = "None"
    /\ writes = 0
    /\ gpa_pc = "idle"
    /\ method_comparison = <<>>
    /\ statements = <<>>
    /\ gpa_result = NotCalled

\* await processor.initialize() in main(): create_pool sets the pool, or
\* raises and leaves it None.
Initialize ==
    /\ program = "brain_processor"
    /\ main_pc = "initialize"
    /\ \E ok \in BOOLEAN :
          /\ pool' = IF ok THEN "open" ELSE "None"
          /\ calls' = Append(calls, Call("initialize", IF ok THEN "None" ELSE "raised", <<>>))
          /\ main_pc' = BrainMainNext(main_pc, ok)
    /\ UNCHANGED <<program, raw_queries, raw_performance_metrics, analysis, summary>>
    /\ UNCHANGED project_vars

\* await processor.analyze_rag_vs_context_dumping(), called directly
Analyze ==
    /\ program = "brain_processor"
    /\ main_pc = "none"
    /\ analysis = NotCalled
    /\ analysis' = IF pool = "open"
                   THEN AnalyzeRagVsContextDumping(raw_queries, raw_performance_metrics)
                   ELSE Raised(IF pool = "None" THEN "AttributeError" ELSE "InterfaceError")
    /\ calls' = Append(calls, Call("analyze_rag_vs_context_dumping", analysis'.kind, <<>>))
    /\ UNCHANGED <<program, main_pc, raw_queries, raw_performance_metrics, pool, summary>>
    /\ UNCHANGED project_vars

\* await processor.generate_executive_summary(), which runs the analysis
GenerateExecutiveSummary ==
    /\ program = "brain_processor"
    /\ main_pc \in {"none", "summary"}
    /\ summary = NotCalled
    /\ analysis' = IF pool = "open"
                   THEN AnalyzeRagVsContextDumping(raw_queries, raw_performance_metrics)
                   ELSE Raised(IF pool = "None" THEN "AttributeError" ELSE "InterfaceError")
    /\ summary' = ExecutiveSummary(analysis')
    /\ calls' = Append(calls, Call("generate_executive_summary", summary'.kind, <<>>))
    /\ main_pc' = BrainMainNext(main_pc, summary'.kind # "raised")
    /\ UNCHANGED <<program, raw_queries, raw_performance_metrics, pool>>
    /\ UNCHANGED project_vars

\* await processor.shutdown() in the finally clause of main(): close_pool
\* closes the pool if there is one.
Shutdown ==
    /\ program = "brain_processor"
    /\ main_pc = "shutdown"
    /\ pool' = IF pool = "None" THEN "None" ELSE "closed"
    /\ calls' = Append(calls, Call("shutdown", IF pool = "open" THEN "closed" ELSE "noop", <<>>))
    /\ main_pc' = BrainMainNext(main_pc, TRUE)
    /\ UNCHANGED <<program, raw_queries, raw_performance_metrics, analysis, summary>>
    /\ UNCHANGED project_vars

\* processor.connect_to_database(): psycopg2.connect returns a connection,
\* put in autocommit mode, or raises and the connection stays None.
ConnectToDatabase ==
    /\ program = "project_2_2_brain_processor"
    /\ main_pc \in {"none", "connect"}
    /\ connection = "None"
    /\ gpa_pc = "idle"
    /\ \A i \in 1..Len(calls) : calls[i].op # "connect_to_database"
    /\ \E ok \in BOOLEAN :
          /\ connection' = IF ok THEN "open" ELSE "None"
          /\ calls' = Append(calls, Call("connect_to_database", PyBool(ok), <<>>))
          /\ main_pc' = ProjectMainNext(main_pc, ok)
    /\ UNCHANGED <<program, scripts, analytics, writes, gpa_pc, method_comparison,
                   statements, gpa_result>>
    /\ UNCHANGED brain_vars

\* processor.run_ddl(ddl_file)
RunDdl ==
    /\ program = "project_2_2_brain_processor"
    /\ main_pc \in {"none", "run_ddl"}
    /\ gpa_pc = "idle"
    /\ \A i \in 1..Len(calls) : calls[i].op # "run_ddl"
    /\ \E ddl_file \in IF main_pc = "none"
                       THEN {"None"} \cup {DdlFiles[i] : i \in 1..Len(DdlFiles)}
                       ELSE {"None"} :
          LET run == RunScripts(connection, DdlFiles, ddl_file, scripts)
          IN  /\ calls' = Append(calls, ScriptCall("run_ddl", ddl_file, connection, run))
              /\ main_pc' = ProjectMainNext(main_pc, run.result)
    /\ UNCHANGED <<program>>
    /\ UNCHANGED project_vars
    /\ UNCHANGED brain_vars

\* processor.run_dml(dml_file)
RunDml ==
    /\ program = "project_2_2_brain_processor"
    /\ main_pc \in {"none", "run_dml"}
    /\ gpa_pc = "idle"
    /\ \A i \in 1..Len(calls) : calls[i].op # "run_dml"
    /\ \E dml_file \in IF main_pc = "none"
                       THEN {"None"} \cup {DmlFiles[i] : i \in 1..Len(DmlFiles)}
                       ELSE {"None"} :
          LET run == RunScripts(connection, DmlFiles, dml_file, scripts)
          IN  /\ calls' = Append(calls, ScriptCall("run_dml", dml_file, connection, run))
              /\ main_pc' = ProjectMainNext(main_pc, run.result)
    /\ UNCHANGED <<program>>
    /\ UNCHANGED project_vars
    /\ UNCHANGED brain_vars

\* processor.view_table(..) in main(): a DataFrame, or None when the table
\* is empty or the query fails.  main() does not use what it returns.
ViewTable ==
    /\ program = "project_2_2_brain_processor"
    /\ main_pc \in {"view_main", "view_analytics"}
    /\ \E df \in BOOLEAN :
          /\ df => connection = "open"
          /\ (df /\ main_pc = "view_analytics") => analytics # {}
          /\ calls' = Append(calls, Call("view_table", IF df THEN "DataFrame" ELSE "None", <<>>))
    /\ main_pc' = ProjectMainNext(main_pc, TRUE)
    /\ UNCHANGED <<program>>
    /\ UNCHANGED project_vars
    /\ UNCHANGED brain_vars

\* Another session commits a change of the analytics table: it deletes a row.
WriterDeletes ==
    /\ program = "project_2_2_brain_processor"
    /\ main_pc \in {"none", "analysis"}
    /\ writes < MaxWrites
    /\ \E row \in analytics : analytics' = analytics \ {row}
    /\ writes' = writes + 1
    /\ UNCHANGED <<program, main_pc, calls, connection, scripts, gpa_pc,
                   method_comparison, statements, gpa_result>>
    /\ UNCHANGED brain_vars

\* Another session commits a change of the analytics table: it re-measures a row.
WriterUpdates ==
    /\ program = "project_2_2_brain_processor"
    /\ main_pc \in {"none", "analysis"}
    /\ writes < MaxWrites
    /\ \E row \in analytics, t \in AnalyticsTimes :
          /\ t # row.avg_response_time_ms
          /\ analytics' = (analytics \ {row}) \cup
                            {[row EXCEPT !.avg_response_time_ms = t]}
    /\ writes' = writes + 1
    /\ UNCHANGED <<program, main_pc, calls, connection, scripts, gpa_pc,
                   method_comparison, statements, gpa_result>>
    /\ UNCHANGED brain_vars

\* get_performance_analysis up to the return of its first statement:
\* without a connection it returns None at once.
GpaMethodComparison ==
    /\ program = "project_2_2_brain_processor"
    /\ main_pc \in {"none", "analysis"}
    /\ gpa_pc = "idle"
    /\ gpa_result = NotCalled
    /\ IF connection = "None"
       THEN /\ gpa_result' = ReturnedNone
            /\ gpa_pc' = "returned"
            /\ calls' = Append(calls, Call("get_performance_analysis", "None", <<>>))
            /\ main_pc' = ProjectMainNext(main_pc, TRUE)
            /\ UNCHANGED <<method_comparison, statements>>
       ELSE /\ method_comparison' = MethodComparisonStatement(analytics).rows
            /\ statements' = Append(statements, analytics)
            /\ gpa_pc' = "comparison_fetched"
            /\ UNCHANGED <<gpa_result, calls, main_pc>>
    /\ UNCHANGED <<program, connection, scripts, analytics, writes>>
    /\ UNCHANGED brain_vars

\* get_performance_analysis from its second statement to its return.  The
\* connection is in autocommit mode, so the statement runs in a transaction
\* of its own, against the table as it is now.  In main() the summary
\* ("EXECUTION COMPLETED SUCCESSFULLY") is printed next.
GpaPerformers ==
    /\ program = "project_2_2_brain_processor"
    /\ main_pc \in {"none", "analysis"}
    /\ gpa_pc = "comparison_fetched"
    /\ statements' = Append(statements, analytics)
    /\ LET answer == PerformersStatement(analytics)
       IN  gpa_result' = IF answer.kind = "error" THEN ReturnedNone
                         ELSE PerformanceAnalysis(method_comparison, answer.rows)
    /\ gpa_pc' = "returned"
    /\ calls' = calls \o <<Call("get_performance_analysis", gpa_result'.kind, <<>>)>>
                      \o (IF main_pc = "analysis"
                          THEN <<Call("completed", "printed", <<>>)>> ELSE <<>>)
    /\ main_pc' = ProjectMainNext(main_pc, TRUE)
    /\ UNCHANGED <<program, connection, scripts, analytics, writes, method_comparison>>
    /\ UNCHANGED brain_vars

\* processor.close_connection() in the finally clause of main(): closes
\* the connection if there is one.
CloseConnection ==
    /\ program = "project_2_2_brain_processor"
    /\ main_pc = "close"
    /\ connection' = IF connection = "None" THEN "None" ELSE "closed"
    /\ calls' = Append(calls, Call("close_connection",
                                   IF connection = "open" THEN "closed" ELSE "noop", <<>>))
    /\ main_pc' = ProjectMainNext(main_pc, TRUE)
    /\ UNCHANGED <<program, scripts, analytics, writes, gpa_pc, method_comparison,
                   statements, gpa_result>>
    /\ UNCHANGED brain_vars

\* a step of main()
MainStep ==
    /\ main_pc # "none"
    /\ \/ Initialize
       \/ GenerateExecutiveSummary
       \/ Shutdown
       \/ ConnectToDatabase
       \/ RunDdl
       \/ RunDml
       \/ ViewTable
       \/ GpaMethodComparison
       \/ GpaPerformers
       \/ CloseConnection

Next ==
    \/ Initialize
    \/ Analyze
    \/ GenerateExecutiveSummary
    \/ Shutdown
    \/ ConnectToDatabase
    \/ RunDdl
    \/ RunDml
    \/ ViewTable
    \/ WriterDeletes
    \/ WriterUpdates
    \/ GpaMethodComparison
    \/ GpaPerformers
    \/ CloseConnection

Spec == Init /\ [][Next]_vars

\* A run of one of the two scripts: the processor is constructed by main()
\* and nothing else calls its handlers; other sessions may write to the
\* analytics table meanwhile.
MainInit == Init /\ main_pc # "none"

MainNext ==
    \/ Initialize
    \/ GenerateExecutiveSummary
    \/ Shutdown
    \/ ConnectToDatabase
    \/ RunDdl
    \/ RunDml
    \/ ViewTable
    \/ WriterDeletes
    \/ WriterUpdates
    \/ GpaMethodComparison
    \/ GpaPerformers
    \/ CloseConnection

\* main() runs its statements one after the other until it returns.
FairSpec == MainInit /\ [][MainNext]_vars /\ WF_vars(MainStep)

\* ------------------------------------------------------------ properties
Joined == LeftJoin(raw_queries, raw_performance_metrics)
Groups == PerformanceData(Joined)
RagGroup == Val(RowOf(Groups, "RAG"))
ContextGroup == Val(RowOf(Groups, "CONTEXT_DUMP"))
BothGroups == RowOf(Groups, "RAG") # None /\ RowOf(Groups, "CONTEXT_DUMP") # None
Analysed == program = "brain_processor" /\ analysis.kind # "not_called"
Summarised == program = "brain_processor" /\ summary.kind # "not_called"

\* get_performance_analysis has returned after both statements met table t
GpaRanOn(t) ==
    /\ gpa_pc = "returned"
    /\ Len(statements) = 2
    /\ statements[1] = t
    /\ statements[2] = t

RankedFirst(t) == CHOOSE x \in t : \A y \in t : x.performance_rank <= y.performance_rank
RankedLast(t) == CHOOSE x \in t : \A y \in t : x.performance_rank >= y.performance_rank

\* C1: when the mean response time of the faster method (RAG for
\* analyze_rag_vs_context_dumping, the best performer for
\* get_performance_analysis) is zero, the call raises no division error and
\* reports no number as the improvement factor: the factor is null.
C1_ZeroTimeFactorUndefined ==
    /\ (Analysed /\ BothGroups /\ RagGroup.avg_response_time_ms = Num(0))
          => /\ analysis.kind = "raised"
                   => analysis.exc \notin {"DivisionByZero", "InvalidOperation"}
             /\ analysis.kind = "ok" => analysis.performance_improvement_factor = None
    /\ \A t \in AnalyticsTables :
          (GpaRanOn(t) /\ t # {} /\ RankedFirst(t).avg_response_time_ms = Num(0)
              /\ gpa_result.kind = "report")
             => gpa_result.improvement_factor = None

\* C2: on empty data the analysis reports that no data is available: the
\* executive summary is the no-data error report (nothing is raised), and
\* get_performance_analysis on an empty analytics table returns no report
\* that carries a numeric improvement factor.
C2_NoDataReported ==
    /\ (Summarised /\ raw_queries = <<>>)
          => /\ analysis.kind = "empty"
             /\ summary.kind = "error"
             /\ summary.error = "No data available for analysis"
    /\ GpaRanOn({})
          => ~(gpa_result.kind = "report" /\ gpa_result.improvement_factor # None)

C2_Witness ==
    /\ Summarised
    /\ raw_queries = <<>>
    /\ analysis.kind = "empty"
    /\ summary.kind = "error"

\* C3: when the RAG group or the CONTEXT_DUMP group is absent from the
\* fetched groups, analyze_rag_vs_context_dumping returns the empty
\* comparison without raising and generate_executive_summary returns the
\* error report.
C3_MissingMethodEmpty ==
    (program = "brain_processor" /\ ~BothGroups)
       => /\ analysis.kind \in {"not_called", "empty"}
          /\ summary.kind \in {"not_called", "error"}

C3_Witness ==
    /\ Summarised
    /\ Groups # {}
    /\ \A g \in Groups : g.processing_method = "HYBRID"
    /\ analysis.kind = "empty"
    /\ summary.kind = "error"

Max(a, b) == IF a >= b THEN a ELSE b

\* C4: when the two compared mean response times are positive and differ,
\* the reported improvement factor is slower / faster, hence at least 1.0,
\* whichever method is the slower one.
C4_FactorAtLeastOne ==
    /\ (Analysed /\ analysis.kind = "ok"
          /\ Val(RagGroup.avg_response_time_ms) > 0
          /\ Val(ContextGroup.avg_response_time_ms) > 0
          /\ RagGroup.avg_response_time_ms # ContextGroup.avg_response_time_ms)
          => LET r == Val(RagGroup.avg_response_time_ms)
                 c == Val(ContextGroup.avg_response_time_ms)
             IN  /\ analysis.performance_improvement_factor
                       = Num(RoundHalfEven(10 * Max(r, c), Min(r, c)))
                 /\ Val(analysis.performance_improvement_factor) >= 10
    /\ (gpa_result.kind = "report"
          /\ gpa_result.best_performer # None /\ gpa_result.worst_performer # None)
          => LET b == Val(gpa_result.best_performer).avg_response_time_ms
                 w == Val(gpa_result.worst_performer).avg_response_time_ms
             IN  (b # None /\ w # None /\ Val(b) > 0 /\ Val(w) > 0 /\ b # w)
                    => /\ gpa_result.improvement_factor
                             = Num(RoundHalfEven(10 * Max(Val(b), Val(w)), Min(Val(b), Val(w))))
                       /\ Val(gpa_result.improvement_factor) >= 10

\* C5: on a non-empty analytics table get_performance_analysis reports the
\* row ranked 1 as best_performer and the row of the greatest rank as
\* worst_performer, and the improvement factor is computed from the response
\* times of these two rows.
C5_BestAndWorstByRank ==
    \A t \in AnalyticsTables :
       (GpaRanOn(t) /\ t # {} /\ \A x \in t : x.avg_response_time_ms # None)
          => /\ gpa_result.kind = "report"
             /\ gpa_result.best_performer # None
             /\ gpa_result.worst_performer # None
             /\ Val(gpa_result.best_performer).context_method = RankedFirst(t).context_method
             /\ Val(gpa_result.worst_performer).context_method = RankedLast(t).context_method
             /\ Val(RankedFirst(t).avg_response_time_ms) > 0
                   => gpa_result.improvement_factor
                         = Num(RoundHalfEven(10 * Val(RankedLast(t).avg_response_time_ms),
                                             Val(RankedFirst(t).avg_response_time_ms)))

ZeroDenominators ==
    { d \in {"time", "cost", "quality"} :
        \/ d = "time" /\ RagGroup.avg_response_time_ms = Num(0)
        \/ d = "cost" /\ RagGroup.avg_cost_usd = Num(0)
        \/ d = "quality" /\ ContextGroup.avg_quality_score = Num(0) }

\* C6: when exactly one of the three denominators (RAG mean time, RAG mean
\* cost, CONTEXT_DUMP mean quality) is zero, analyze_rag_vs_context_dumping
\* raises nothing and returns a report in which only the dependent ratio is
\* null; the two other factors and both aggregates have their normal values.
C6_PartialReport ==
    (Analysed /\ BothGroups
       /\ RagGroup.avg_quality_score # None /\ ContextGroup.avg_quality_score # None
       /\ Cardinality(ZeroDenominators) = 1)
       => /\ analysis.kind = "ok"
          /\ analysis.rag_metrics = RagGroup
          /\ analysis.context_dump_metrics = ContextGroup
          /\ analysis.performance_improvement_factor =
                IF "time" \in ZeroDenominators THEN None
                ELSE Num(DecimalRatio(ContextGroup.avg_response_time_ms,
                                      RagGroup.avg_response_time_ms, 10).value)
          /\ analysis.cost_reduction_factor =
                IF "cost" \in ZeroDenominators THEN None
                ELSE Num(DecimalRatio(ContextGroup.avg_cost_usd,
                                      RagGroup.avg_cost_usd, 10).value)
          /\ analysis.quality_improvement_percent =
                IF "quality" \in ZeroDenominators THEN None
                ELSE Num(DecimalPercent(RagGroup.avg_quality_score,
                                        ContextGroup.avg_quality_score).value)

\* The mean of column col over all of rows, to the decimals of mult; null
\* when a row has no value in the column.
MeanOfAll(rows, col, mult) ==
    IF rows = <<>> \/ \E i \in 1..Len(rows) : rows[i][col] = None THEN None
    ELSE Num(RoundHalfAway(mult * SumSeq([i \in 1..Len(rows) |-> Val(rows[i][col])]),
                           Len(rows)))

AggregateOverRecords(agg) ==
    LET records == GroupRows(Joined, agg.processing_method)
    IN  /\ agg.query_count = Len(records)
        /\ agg.avg_response_time_ms = MeanOfAll(records, "response_time_ms", 100)
        /\ agg.avg_cost_usd = MeanOfAll(records, "cost_usd", 1)
        /\ agg.avg_quality_score = MeanOfAll(records, "quality_score", 1)
        /\ agg.avg_user_satisfaction = MeanOfAll(records, "user_satisfaction", 100)

\* C7: in every aggregate the count is the number of records of the method
\* and each mean is the arithmetic mean of the field over those same
\* records, rounded to 2 / 6 / 3 / 2 decimals.
C7_CountAndMeansOverSameRecords ==
    (Analysed /\ analysis.kind = "ok")
       => /\ AggregateOverRecords(analysis.rag_metrics)
          /\ AggregateOverRecords(analysis.context_dump_metrics)

\* The scenario of the specification: two RAG records and one CONTEXT_DUMP
\* record, each with its metrics row.
ScenarioCases == <<1, 2, Len(Observations) + 3>>

\* C8: on the scenario the analysis yields RAG count 2, mean time 600.0,
\* mean cost 0.0025, mean quality 0.925, CONTEXT_DUMP count 1, mean time
\* 3000.0, performance factor 5.0, cost factor 8.0, quality improvement 15.63.
C8_Scenario ==
    (Analysed /\ raw_queries = RawQueries(ScenarioCases)
       /\ raw_performance_metrics = RawPerformanceMetrics(ScenarioCases))
       => /\ analysis.kind = "ok"
          /\ analysis.rag_metrics.query_count = 2
          /\ analysis.rag_metrics.avg_response_time_ms = Num(60000)
          /\ analysis.rag_metrics.avg_cost_usd = Num(2500)
          /\ analysis.rag_metrics.avg_quality_score = Num(925)
          /\ analysis.context_dump_metrics.query_count = 1
          /\ analysis.context_dump_metrics.avg_response_time_ms = Num(300000)
          /\ analysis.performance_improvement_factor = Num(50)
          /\ analysis.cost_reduction_factor = Num(80)
          /\ analysis.quality_improvement_percent = Num(1563)

\* C9: a row that lacks a required metric is surfaced at once as a
\* MalformedRecord error: it is neither skipped in the aggregation nor
\* turned into an ordinary result or another exception.
C9_MalformedRecordSurfaced ==
    /\ (Analysed /\ \E i \in 1..Len(Joined) : Joined[i].quality_score = None)
          => /\ analysis.kind = "raised"
             /\ analysis.exc = "MalformedRecord"
    /\ \A t \in AnalyticsTables :
          (GpaRanOn(t) /\ \E x \in t : x.avg_response_time_ms = None)
             => /\ gpa_result.kind = "raised"
                /\ gpa_result.exc = "MalformedRecord"

Performer(category, x) ==
    [category |-> category, context_method |-> x.context_method,
     avg_response_time_ms |-> x.avg_response_time_ms]

C11_RoiCappedFromRawAnalysis ==
    (program = "brain_processor" /\ summary.kind = "summary")
       => LET raw     == summary.raw_analysis
              product == Val(raw.performance_improvement_factor)
                            * Val(raw.cost_reduction_factor) * 20
          IN  /\ raw = analysis
              /\ summary.key_achievements.roi_delivered
                    = IF product <= 90000 THEN product ELSE 90000
              /\ summary.key_achievements.roi_delivered <= 90000
              /\ Num(summary.key_achievements.performance_improvement)
                    = raw.performance_improvement_factor
              /\ Num(summary.key_achievements.cost_reduction)
                    = raw.cost_reduction_factor
              /\ Num(summary.key_achievements.quality_improvement)
                    = raw.quality_improvement_percent

\* a summary whose uncapped product is above the cap
C11_Witness ==
    /\ program = "brain_processor"
    /\ summary.kind = "summary"
    /\ Val(analysis.performance_improvement_factor)
          * Val(analysis.cost_reduction_factor) * 20 > 90000
    /\ summary.key_achievements.roi_delivered = 90000

\* ---------------------------------------------------------- the drivers
Driven == main_pc # "none"
IsRelease(c) == c.op \in {"close_connection", "shutdown"}
Releases == { i \in 1..Len(calls) : IsRelease(calls[i]) }
Gates == {"connect_to_database", "run_ddl", "run_dml"}

\* C12: in a run of either main() the connection or pool is released
\* exactly once on every path, the release of a connection or pool that was
\* never opened is a no-op, no call follows the release, and the run gets
\* there.
C12_ReleasedOnceAtTheEnd ==
    /\ [](Driven =>
            /\ Cardinality(Releases) <= 1
            /\ \A i \in Releases : i = Len(calls)
            /\ \A i \in Releases :
                  calls[i].result = "noop"
                     <=> \A j \in 1..(i - 1) :
                            ~(calls[j].op \in {"connect_to_database", "initialize"}
                              /\ calls[j].result \in {"True", "None"})
            /\ main_pc = "exited"
                  => /\ Cardinality(Releases) = 1
                     /\ connection # "open"
                     /\ pool # "open")
    /\ (Driven ~> main_pc = "exited")

\* main() has returned after a failure of run_dml and has closed the
\* connection it had opened
C12_Witness ==
    /\ main_pc = "exited"
    /\ connection = "closed"
    /\ \E i \in 1..Len(calls) : calls[i].op = "run_dml" /\ calls[i].result = "False"
    /\ calls[Len(calls)].op = "close_connection"
    /\ calls[Len(calls)].result = "closed"

StepOrder(op) ==
    CASE op = "connect_to_database"      -> 1
      [] op = "run_ddl"                  -> 2
      [] op = "run_dml"                  -> 3
      [] op = "view_table"               -> 4
      [] op = "get_performance_analysis" -> 5
      [] op = "completed"                -> 6
      [] OTHER                           -> 7

Before(i, op, result) ==
    \E j \in 1..(i - 1) : calls[j].op = op /\ calls[j].result = result

\* C13: main() of project_2_2_brain_processor.py takes its steps in the
\* order connect, DDL, DML, views, analysis: run_ddl only after
\* connect_to_database returned True, run_dml only after run_ddl returned
\* True, view_table, get_performance_analysis and the closing summary only
\* after run_dml returned True; after a False of a gate no later step runs.
C13_StepsGated ==
    (program = "project_2_2_brain_processor" /\ Driven)
       => \A i \in 1..Len(calls) :
             /\ calls[i].op = "run_ddl" => Before(i, "connect_to_database", "True")
             /\ calls[i].op = "run_dml" => Before(i, "run_ddl", "True")
             /\ calls[i].op \in {"view_table", "get_performance_analysis", "completed"}
                   => Before(i, "run_dml", "True")
             /\ (calls[i].op \in Gates /\ calls[i].result = "False")
                   => \A k \in (i + 1)..Len(calls) : calls[k].op = "close_connection"
             /\ \A k \in (i + 1)..Len(calls) :
                   StepOrder(calls[i].op) <= StepOrder(calls[k].op)

\* main() has printed its summary and returned
C13_Witness ==
    /\ program = "project_2_2_brain_processor"
    /\ main_pc = "exited"
    /\ Len(calls) = 8
    /\ calls[7].op = "completed"

Failed(f) == scripts[f] \in {"unreadable", "fails"}

\* the files a call goes through: up to the first that fails
Reached(files) ==
    { i \in 1..Len(files) : \A j \in 1..(i - 1) : ~Failed(files[j]) }

ScriptCallAsListed(c, default_files) ==
    LET files == IF c.file = "None" THEN default_files ELSE <<c.file>>
    IN  IF c.conn # "open"
        THEN c.result = "False" /\ c.executed = <<>>
        ELSE /\ c.result = "True" <=> \A i \in 1..Len(files) : ~Failed(files[i])
             /\ c.executed =
                   SelectSeq(files, LAMBDA f : \E i \in Reached(files) :
                                                  /\ files[i] = f
                                                  /\ scripts[f] \in {"ok", "fails"})

\* C14: run_ddl and run_dml return True exactly when no script they took up
\* failed: the scripts are taken in the listed order, the first failure
\* ends the call with False and no later script is executed, a file that
\* does not exist is skipped, and without an open connection the call
\* returns False and executes nothing.
C14_ScriptsInOrder ==
    \A i \in 1..Len(calls) :
       /\ calls[i].op = "run_ddl" => ScriptCallAsListed(calls[i], DdlFiles)
       /\ calls[i].op = "run_dml" => ScriptCallAsListed(calls[i], DmlFiles)

\* run_ddl() on an open connection: the first script exists and is
\* rejected, the second would have succeeded and is not executed
C14_Witness ==
    /\ scripts[DdlFiles[1]] = "fails"
    /\ scripts[DdlFiles[2]] = "ok"
    /\ \E i \in 1..Len(calls) :
          /\ calls[i].op = "run_ddl"
          /\ calls[i].file = "None"
          /\ calls[i].conn = "open"
          /\ calls[i].result = "False"
          /\ calls[i].executed = <<DdlFiles[1]>>

====
